---- MODULE Spec2Model ----
(***************************************************************************)
(* A state-machine model of smoldtb.c: the flattened-device-tree parser,   *)
(* its query and decode API and its serializer.                            *)
(*                                                                         *)
(* Memory is modelled byte by byte.  An address is a natural number, 0 is  *)
(* NULL.  A uint32_t value is the tuple of its four bytes, most            *)
(* significant first, so that 0xD00DFEED and the byte swap of be32 are     *)
(* represented exactly; the host is little-endian (the #else branch of     *)
(* be32).  A 64-bit value is the tuple of its eight bytes.                 *)
(***************************************************************************)
EXTENDS Integers, Sequences, FiniteSets, TLC

VARIABLES
    blob,       \* the image dtb_init is handed: the bytes at address BlobBase
    state,      \* struct dtb_state state
    arena,      \* the block behind node_buff / prop_buff / handle_lookup
    pc,         \* "start", "parse", "ready", "failed" or "undefined"
    i,          \* the cursor of the top-level loop, shared with parse_node as *offset
    stack,      \* the nodes of the parse_node calls in progress, innermost last
    log,        \* the messages handed to ops.on_error, oldest first
    op,         \* the last API call made on the parsed tree and its arguments
    result,     \* what that call returned
    out,        \* the caller's buffer handed to dtb_finalise_to_buffer
    first,      \* the tree of the image that was parsed before the current one
    heap        \* the bytes ops.malloc has handed out for names, at HeapBase

vars == <<blob, state, arena, pc, i, stack, log, op, result, out, first, heap>>

----------------------------------------------------------------------------
(* Bounds of the model. *)

\* on_error calls that are recorded; later ones are made but not recorded
MaxLog == 4
\* properties of the root node in a generated image
MaxRootProps == 2
\* children of the root node in a generated image
MaxKids == 2
\* string index asked of dtb_read_prop_string
MaxIndex == 6
\* cells per value asked of dtb_read_prop_values and dtb_read_prop_pairs
MaxWidth == 2
\* cells per value asked of dtb_read_prop_triplets and dtb_read_prop_quads
MaxTupleWidth == 1

----------------------------------------------------------------------------
(* Constants of the program. *)

FDT_BEGIN_NODE == 1
FDT_END_NODE == 2
FDT_PROP == 3
FDT_NOP == 4
FDT_VERSION == 17
FDT_CELL_SIZE == 4
NULL == 0
\* sizeof(struct fdt_header): ten uint32_t fields
SizeofHeader == 40

FDT_MAGIC == <<208, 13, 254, 237>>

\* Where the environment places things: the string literals of the program
\* and of its caller, the image, and the caller's output buffer.
Layout == [pool |-> 16, blob |-> 256, out |-> 1024, heap |-> 2048, nodes |-> 1, props |-> 1,
           again |-> 9]

PoolBase == Layout.pool
BlobBase == Layout.blob
OutBase == Layout.out
HeapBase == Layout.heap

----------------------------------------------------------------------------
(* Bytes, words and strings. *)

RECURSIVE Zeros(_)
Zeros(n) == IF n <= 0 THEN <<>> ELSE <<0>> \o Zeros(n - 1)

RECURSIVE Flatten(_)
Flatten(ss) == IF ss = <<>> THEN <<>> ELSE Head(ss) \o Flatten(Tail(ss))

\* uint32_t <-> number.  Val is used only on values below 2^31.
Val(w) == ((w[1] * 256 + w[2]) * 256 + w[3]) * 256 + w[4]
U32(n) == <<(n \div 16777216) % 256, (n \div 65536) % 256, (n \div 256) % 256, n % 256>>

\* The characters the program names.
ChSlash == 47
ChAt == 64
ChHash == 35
ChP == 112
ChL == 108

StrCompatible == <<99, 111, 109, 112, 97, 116, 105, 98, 108, 101>>
StrPhandle == <<112, 104, 97, 110, 100, 108, 101>>
StrLinuxPhandle == <<108, 105, 110, 117, 120, 44>> \o StrPhandle
StrReg == <<114, 101, 103>>
StrA == <<97>>
StrAB == <<97, 98>>
StrABC == <<97, 98, 99>>
StrA1 == <<97, 64, 49>>
StrB == <<98>>

\* The strings the program and its caller hold outside the image, each
\* followed by its NUL: the literals of dtb_find_compatible and
\* check_for_special_prop, then the arguments the caller passes.
Pool ==
    << StrCompatible, StrPhandle, StrLinuxPhandle,
       StrA, StrAB, StrABC,
       <<ChSlash>>, <<ChSlash>> \o StrA, <<ChSlash>> \o StrA1,
       <<ChSlash, ChSlash>> \o StrAB \o <<ChSlash>> \o StrB \o <<ChSlash>>,
       StrAB \o <<ChSlash>> \o StrA, <<ChSlash>> \o StrABC >>

RECURSIVE PoolOffset(_)
PoolOffset(k) == IF k <= 1 THEN 0 ELSE PoolOffset(k - 1) + Len(Pool[k - 1]) + 1

PoolAddr(k) == PoolBase + PoolOffset(k)

PoolBytes == Flatten([k \in 1..Len(Pool) |-> Pool[k] \o <<0>>])

LitCompatible == PoolAddr(1)
LitPhandle == PoolAddr(2)
LitLinuxPhandle == PoolAddr(3)
\* the caller's compatible strings and paths
CompatArgs == {PoolAddr(k) : k \in 4..6}
PathArgs == {PoolAddr(k) : k \in 7..Len(Pool)}

----------------------------------------------------------------------------
(* Memory. *)

InPool(a) == a >= PoolBase /\ a < PoolBase + Len(PoolBytes)
InBlob(a) == a >= BlobBase /\ a < BlobBase + Len(blob)
InHeap(a) == a >= HeapBase /\ a < HeapBase + Len(heap)
Mapped(a) == InPool(a) \/ InBlob(a) \/ InHeap(a)

\* The byte at address a; callers check Mapped(a) where the program can
\* leave the mapped memory.
Rd(a) ==
    IF InBlob(a) THEN blob[a - BlobBase + 1]
    ELSE IF InPool(a) THEN PoolBytes[a - PoolBase + 1]
    ELSE IF InHeap(a) THEN heap[a - HeapBase + 1]
    ELSE 0

\* *(const uint32_t*)a on the little-endian host
Load32(a) == <<Rd(a + 3), Rd(a + 2), Rd(a + 1), Rd(a)>>

RangeMapped(a, n) == \A k \in 0..(n - 1) : Mapped(a + k)

\* be32 on a little-endian host: the four-byte swap
be32(input) == <<input[4], input[3], input[2], input[1]>>

RECURSIVE StrScan(_, _)
StrScan(str, count) ==
    IF ~Mapped(str + count) \/ Rd(str + count) = 0 THEN count
    ELSE StrScan(str, count + 1)

string_len(str) == IF str = NULL THEN 0 ELSE StrScan(str, 0)

\* The scan of string_len(str) ends on a NUL inside mapped memory.
Terminated(str) == str = NULL \/ Mapped(str + string_len(str))

\* The bytes of the C string at str, without the NUL.
CStr(str) == [k \in 1..string_len(str) |-> Rd(str + k - 1)]

RECURSIVE StringsEqFrom(_, _, _, _)
StringsEqFrom(a, b, len, k) ==
    IF k >= len THEN TRUE
    ELSE IF Rd(a + k) = 0 /\ Rd(b + k) = 0 THEN TRUE
    ELSE IF Rd(a + k) # Rd(b + k) THEN FALSE
    ELSE StringsEqFrom(a, b, len, k + 1)

strings_eq(a, b, len) == StringsEqFrom(a, b, len, 0)

NPOS == -1

RECURSIVE FindCharFrom(_, _, _)
FindCharFrom(str, target, k) ==
    IF Rd(str + k) = target THEN k
    ELSE IF ~Mapped(str + k) \/ Rd(str + k) = 0 THEN NPOS
    ELSE FindCharFrom(str, target, k + 1)

string_find_char(str, target) == FindCharFrom(str, target, 0)

dtb_align_up(input, alignment) == ((input + alignment - 1) \div alignment) * alignment

----------------------------------------------------------------------------
(* The images the model is run on, laid out as the device tree compiler     *)
(* lays them out: header, an empty memory reservation block, the structure *)
(* block, the strings block.                                               *)

\* a cell holding the number n, big-endian
Word(n) == U32(n)

\* the strings block: "", compatible, phandle, reg, linux,phandle
StrTab ==
    <<0>> \o StrCompatible \o <<0>> \o StrPhandle \o <<0>> \o StrReg \o <<0>>
          \o StrLinuxPhandle \o <<0>>

OffCompatible == Len(<<0>>)
OffPhandle == OffCompatible + Len(StrCompatible) + 1
OffReg == OffPhandle + Len(StrPhandle) + 1
OffLinuxPhandle == OffReg + Len(StrReg) + 1

\* struct fdt_property and its payload, padded to a whole cell
PropEnc(p) ==
    Word(FDT_PROP) \o Word(p.len) \o Word(p.off) \o p.data
        \o Zeros(dtb_align_up(Len(p.data), FDT_CELL_SIZE) - Len(p.data))

NameEnc(name) ==
    name \o Zeros(dtb_align_up(Len(name) + 1, FDT_CELL_SIZE) - Len(name))

\* a node: its name, its properties, its children (each already encoded)
NodeEnc(name, props, kids) ==
    Word(FDT_BEGIN_NODE) \o NameEnc(name) \o Flatten([k \in 1..Len(props) |-> PropEnc(props[k])])
        \o Flatten(kids) \o Word(FDT_END_NODE)

HeaderEnc(magic, nstruct, nstrings) ==
    magic \o Word(SizeofHeader + 16 + nstruct + nstrings)
          \o Word(SizeofHeader + 16) \o Word(SizeofHeader + 16 + nstruct)
          \o Word(SizeofHeader) \o Word(FDT_VERSION) \o Word(16) \o Word(0)
          \o Word(nstrings) \o Word(nstruct)

ImageOf(magic, struct) ==
    HeaderEnc(magic, Len(struct), Len(StrTab)) \o Zeros(16) \o struct \o StrTab

\* compatible = "ab"
PCompat == [off |-> OffCompatible, len |-> 3, data |-> StrAB \o <<0>>]
\* compatible = "abc", "ab"
PCompat2 == [off |-> OffCompatible, len |-> 7, data |-> StrABC \o <<0>> \o StrAB \o <<0>>]
\* phandle = <1>
PPhandle == [off |-> OffPhandle, len |-> 4, data |-> U32(1)]
\* linux,phandle = <2>
PLinuxPhandle == [off |-> OffLinuxPhandle, len |-> 4, data |-> U32(2)]
\* reg = <1 2>
PReg == [off |-> OffReg, len |-> 8, data |-> U32(1) \o U32(2)]
\* reg = <0xDEADBEEF 0x01020304 0x0A0B0C0D 0xFFFFFFFF>
PWide == [off |-> OffReg, len |-> 16,
          data |-> <<222, 173, 190, 239, 1, 2, 3, 4, 10, 11, 12, 13, 255, 255, 255, 255>>]
\* an empty property whose name is the tail "mpatible" of the strings block
PEmpty == [off |-> 3, len |-> 0, data |-> <<>>]

RootPropChoices == {PCompat, PPhandle, PLinuxPhandle, PReg, PEmpty}

SeqsUpTo(S, n) == UNION {[1..k -> S] : k \in 0..n}

\* the children a generated root can have
KidChoices ==
    { NodeEnc(StrA, <<>>, <<>>),
      NodeEnc(StrA1, <<PCompat>>, <<>>),
      NodeEnc(StrAB, <<>>, <<NodeEnc(StrB, <<>>, <<>>)>>) }

\* the token that ends the structure block
EndOfStruct == Word(9)

WellFormedStructs ==
    { NodeEnc(<<>>, ps, ks) \o EndOfStruct :
        ps \in SeqsUpTo(RootPropChoices, MaxRootProps), ks \in SeqsUpTo(KidChoices, MaxKids) }

WellFormedImages == {ImageOf(FDT_MAGIC, s) : s \in WellFormedStructs}

\* the properties of the images the decode API is run on
DecodePropChoices == {PCompat, PCompat2, PReg, PWide, PEmpty}

DecodeImages ==
    { ImageOf(FDT_MAGIC, NodeEnc(<<>>, ps, <<>>) \o EndOfStruct) :
        ps \in SeqsUpTo(DecodePropChoices, MaxRootProps) }

\* reg = <1 1 1>: three cells that the scan of alloc_buffers counts as nodes
PSpare == [off |-> OffReg, len |-> 12, data |-> U32(1) \o U32(1) \o U32(1)]

\* the images nodes are created on: the allocator has a record or two left
\* once they are parsed; those of the second kind start with a FDT_NOP cell
CreateImages ==
    { ImageOf(FDT_MAGIC, NodeEnc(<<>>, <<PReg, PPhandle>>, ks) \o EndOfStruct) :
        ks \in SeqsUpTo(KidChoices, MaxKids) }
    \cup { ImageOf(FDT_MAGIC, Word(FDT_NOP) \o NodeEnc(<<>>, <<PSpare>>, ks) \o EndOfStruct) :
        ks \in SeqsUpTo(KidChoices, 1) }

\* compatible = "ab", its length field saying 64 bytes
PLong == [off |-> OffCompatible, len |-> 64, data |-> StrAB \o <<0>>]

\* a structure block cut short by n cells
Truncate(struct, n) == SubSeq(struct, 1, Len(struct) - FDT_CELL_SIZE * n)

\* structure blocks a compiler does not emit: a property that says it is
\* longer than the block, a block that ends inside a node (the root alone,
\* or the root and its last child), several top-level nodes, back to back
\* or with an FDT_NOP between them
LongPropStructs ==
    { NodeEnc(<<>>, <<PLong, PReg>>, <<>>) \o EndOfStruct }

TruncatedStructs ==
    { Truncate(NodeEnc(<<>>, <<PReg, PCompat>>, ks), n) :
        ks \in SeqsUpTo({NodeEnc(StrA1, <<PCompat>>, <<>>)}, 1), n \in 1..2 }

TopLevelNodes ==
    << NodeEnc(<<>>, <<PCompat>>, <<>>), NodeEnc(StrA, <<PCompat>>, <<>>), NodeEnc(StrAB, <<>>, <<>>) >>

\* the first m of them, each followed by gap
ManyRoots(m, gap) == Flatten([k \in 1..m |-> TopLevelNodes[k] \o gap]) \o EndOfStruct

ManyRootStructs ==
    { ManyRoots(m, gap) : m \in 1..Len(TopLevelNodes), gap \in {<<>>, Word(FDT_NOP)} }

\* root { compatible = "ab"; a { } } with a FDT_NOP cell inside node a
PaddedNode == NodeEnc(<<>>, <<PCompat>>, <<NodeEnc(StrA, <<>>, <<Word(FDT_NOP)>>)>>)

\* the images a context is initialised with more than once
ReinitImages ==
    { ImageOf(FDT_MAGIC, s) :
        s \in { ManyRoots(m, Word(FDT_NOP)) : m \in 1..2 }
                 \cup { PaddedNode \o EndOfStruct, Truncate(PaddedNode, 1) } }

ParseImages ==
    {ImageOf(FDT_MAGIC, s) : s \in LongPropStructs \cup TruncatedStructs \cup ManyRootStructs}
        \cup ReinitImages

\* an image whose magic number is wrong
BadMagicImage == ImageOf(<<208, 13, 254, 238>>, NodeEnc(<<>>, <<>>, <<>>) \o EndOfStruct)

Images == WellFormedImages \cup {BadMagicImage}

----------------------------------------------------------------------------
(* The parser's state. *)

ZeroNode == [parent |-> NULL, sibling |-> NULL, child |-> NULL, props |-> NULL, name |-> NULL]
ZeroProp == [name |-> NULL, first_cell |-> NULL, length |-> 0, next |-> NULL]

\* struct dtb_state state, zero-initialised as a global is
ZeroState ==
    [cells |-> NULL, strings |-> NULL, cell_count |-> 0, root |-> NULL,
     handle_lookup |-> NULL, node_buff |-> NULL, node_alloc_head |-> 0,
     node_alloc_max |-> 0, prop_buff |-> NULL, prop_alloc_head |-> 0,
     prop_alloc_max |-> 0]

ZeroArena == [nodes |-> <<>>, props |-> <<>>, handles |-> <<>>]

\* LOG_ERROR / ops.on_error
Report(l, msg) == IF Len(l) < MaxLog THEN Append(l, msg) ELSE l

\* state.cells[k], converted
CellAt(st, k) == be32(Load32(st.cells + 4 * k))

\* &state.node_buff[idx] and back
NodePtr(st, idx) == st.node_buff + idx
NodeIdx(st, p) == p - st.node_buff
PropPtr(st, idx) == st.prop_buff + idx
PropIdx(st, p) == p - st.prop_buff

NodeAt(st, ar, p) == ar.nodes[NodeIdx(st, p) + 1]
PropAt(st, ar, p) == ar.props[PropIdx(st, p) + 1]

\* alloc_node / alloc_prop: whether a record is handed out; the record is
\* the one at the allocation head, which then moves on by one
alloc_node_ok(st) == st.node_alloc_head + 1 < st.node_alloc_max
alloc_prop_ok(st) == st.prop_alloc_head + 1 < st.prop_alloc_max

\* ops.malloc in alloc_buffers: the blocks it can return.  The first block
\* of a context lies at Layout.nodes; a later one lies there again or at
\* Layout.again, and not where a block that was never freed still lies.
ArenaBases(node_buff, haveFree) ==
    IF node_buff = NULL THEN {Layout.nodes}
    ELSE IF haveFree THEN {Layout.nodes, Layout.again}
    ELSE {Layout.nodes, Layout.again} \ {node_buff}

\* alloc_buffers: the caps from the word-by-word scan, one zeroed block at
\* buffer
alloc_buffers(st, buffer) ==
    LET nmax == Cardinality({k \in 0..(st.cell_count - 1) : CellAt(st, k) = U32(FDT_BEGIN_NODE)})
        pmax == Cardinality({k \in 0..(st.cell_count - 1) : CellAt(st, k) = U32(FDT_PROP)})
    IN  [st |-> [st EXCEPT !.node_alloc_max = nmax, !.prop_alloc_max = pmax,
                           !.node_buff = buffer, !.node_alloc_head = 0,
                           !.prop_buff = buffer + Layout.props - Layout.nodes,
                           !.prop_alloc_head = 0,
                           !.handle_lookup = buffer],
         ar |-> [nodes |-> [k \in 1..nmax |-> ZeroNode],
                 props |-> [k \in 1..pmax |-> ZeroProp],
                 handles |-> [k \in 1..nmax |-> NULL]]]

----------------------------------------------------------------------------
(* The typed decoders.  A uintmax_t / size_t is eight bytes, most          *)
(* significant first.  An operator that can run into undefined behaviour   *)
(* returns a record whose ub field says so.                                *)

RECURSIVE BitOr(_, _)
BitOr(a, b) ==
    IF a = 0 THEN b
    ELSE IF b = 0 THEN a
    ELSE (IF a % 2 = 1 \/ b % 2 = 1 THEN 1 ELSE 0) + 2 * BitOr(a \div 2, b \div 2)

Zero64 == <<0, 0, 0, 0, 0, 0, 0, 0>>

\* (uintmax_t)w
Widen(w) == <<0, 0, 0, 0>> \o w

\* a shift that leaves the value where it is
ShlNone(v, bits) == v

\* v << bits, for bits a multiple of 8 below 64
Shl64(v, bits) == SubSeq(v, 1 + bits \div 8, 8) \o Zeros(bits \div 8)

Or64(a, b) == [k \in 1..8 |-> BitOr(a[k], b[k])]

RECURSIVE ExtractFrom(_, _, _, _)
ExtractFrom(cells, count, idx, value) ==
    IF idx >= count THEN [ub |-> FALSE, value |-> value]
    ELSE IF (count - 1 - idx) * 32 >= 64 \/ ~RangeMapped(cells + 4 * idx, 4)
         THEN [ub |-> TRUE, value |-> value]
    ELSE ExtractFrom(cells, count, idx + 1,
            Or64(value, Shl64(Widen(be32(Load32(cells + 4 * idx))), (count - 1 - idx) * 32)))

extract_cells(cells, count) == ExtractFrom(cells, count, 0, Zero64)

\* The length field the typed decoders read: the struct fdt_property in
\* front of the payload, at prop->first_cell - 2.
DescriptorMapped(pr) == pr.first_cell >= 8 /\ RangeMapped(pr.first_cell - 8, 4)
DescriptorLength(pr) == Val(be32(Load32(pr.first_cell - 8)))

\* the groups of width cells decoded for one tuple, widths being the layout
RECURSIVE ExtractTuple(_, _)
ExtractTuple(base, widths) ==
    IF widths = <<>> THEN [ub |-> FALSE, vals |-> <<>>]
    ELSE LET v == extract_cells(base, Head(widths))
             rest == ExtractTuple(base + 4 * Head(widths), Tail(widths))
         IN  [ub |-> v.ub \/ rest.ub, vals |-> <<v.value>> \o rest.vals]

RECURSIVE Sum(_)
Sum(ws) == IF ws = <<>> THEN 0 ELSE Head(ws) + Sum(Tail(ws))

\* The body the four typed decoders share: prop is the property pointer,
\* widths the layout (one width for dtb_read_prop_values), wantVals whether
\* vals != NULL.  count is the return value, vals[k] the tuple written to
\* vals[k - 1].
ReadTuples(st, ar, prop, widths, wantVals) ==
    IF prop = NULL \/ \E k \in 1..Len(widths) : widths[k] = 0
    THEN [ub |-> FALSE, count |-> 0, vals |-> <<>>]
    ELSE LET pr == PropAt(st, ar, prop) IN
         IF ~DescriptorMapped(pr) THEN [ub |-> TRUE, count |-> 0, vals |-> <<>>]
         ELSE LET stride == Sum(widths)
                  count == DescriptorLength(pr) \div (stride * FDT_CELL_SIZE)
                  got == [k \in 1..count |->
                            ExtractTuple(pr.first_cell + 4 * (k - 1) * stride, widths)]
              IN  IF ~wantVals THEN [ub |-> FALSE, count |-> count, vals |-> <<>>]
                  ELSE [ub |-> \E k \in 1..count : got[k].ub,
                        count |-> count,
                        vals |-> [k \in 1..count |-> got[k].vals]]

dtb_read_prop_values(st, ar, prop, cell_count, wantVals) ==
    ReadTuples(st, ar, prop, <<cell_count>>, wantVals)

dtb_read_prop_pairs(st, ar, prop, layout, wantVals) ==
    ReadTuples(st, ar, prop, <<layout.a, layout.b>>, wantVals)

dtb_read_prop_triplets(st, ar, prop, layout, wantVals) ==
    ReadTuples(st, ar, prop, <<layout.a, layout.b, layout.c>>, wantVals)

dtb_read_prop_quads(st, ar, prop, layout, wantVals) ==
    ReadTuples(st, ar, prop, <<layout.a, layout.b, layout.c, layout.d>>, wantVals)

\* check_for_special_prop: the handle table after the property prop of
\* node has been looked at.  The early-out tests name0 against three
\* different characters with ||, as the source does.
check_for_special_prop(st, ar, node, prop) ==
    LET pr == PropAt(st, ar, prop)
        name0 == Rd(pr.name)
        name_len == string_len(pr.name)
        got == dtb_read_prop_values(st, ar, prop, 1, TRUE)
        \* size_t handle receives vals[0]; a count other than 1 leaves it
        \* unset or writes past it
        handle == Val(SubSeq(got.vals[1][1], 5, 8))
        stored == IF got.ub \/ got.count # 1 \/ handle >= st.node_alloc_max
                  THEN [ub |-> TRUE, handles |-> ar.handles]
                  ELSE [ub |-> FALSE, handles |-> [ar.handles EXCEPT ![handle + 1] = node]]
    IN  IF name0 # ChHash \/ name0 # ChP \/ name0 # ChL
        THEN [ub |-> ~Mapped(pr.name), handles |-> ar.handles]
        ELSE IF name_len = Len(StrPhandle) /\ strings_eq(pr.name, LitPhandle, name_len)
        THEN stored
        ELSE IF name_len = Len(StrLinuxPhandle) /\ strings_eq(pr.name, LitLinuxPhandle, name_len)
        THEN stored
        ELSE [ub |-> FALSE, handles |-> ar.handles]

----------------------------------------------------------------------------
(* dtb_init_with_config and the parser. *)

\* free_buffers, in the build without SMOLDTB_STATIC_BUFFER_SIZE
free_buffers(st, haveFree, l) ==
    IF ~haveFree
    THEN [st |-> st, log |-> Report(l, "ops.free() is NULL while trying to free buffers.")]
    ELSE [st |-> [st EXCEPT !.node_buff = NULL, !.prop_buff = NULL, !.handle_lookup = NULL,
                            !.node_alloc_max = 0, !.prop_alloc_max = 0],
          log |-> l]

Init ==
    /\ blob \in Images
    /\ state = ZeroState
    /\ arena = ZeroArena
    /\ pc = "start"
    /\ i = 0
    /\ stack = <<>>
    /\ log = <<>>
    /\ op = <<"none">>
    /\ result = <<>>
    /\ out = <<>>
    /\ first = <<>>
    /\ heap = <<>>

Fail(msg) ==
    /\ pc' = "failed"
    /\ log' = Report(log, msg)
    /\ UNCHANGED <<blob, state, arena, i, stack, op, result, out, first, heap>>

Undefined ==
    /\ pc' = "undefined"
    /\ UNCHANGED <<blob, state, arena, i, stack, log, op, result, out, first, heap>>

\* dtb_init_with_config(start, ops, config) up to the top-level loop
DtbInit ==
    /\ pc = "start"
    /\ \E configNull \in BOOLEAN, haveMalloc \in BOOLEAN, haveFree \in BOOLEAN :
       \E buffer \in ArenaBases(state.node_buff, haveFree) :
        LET start == BlobBase
            cells == start + Val(be32(Load32(start + 8)))
            cell_count == Val(be32(Load32(start + 36))) \div 4
            strings == start + Val(be32(Load32(start + 12)))
            st1 == [state EXCEPT !.cells = cells, !.cell_count = cell_count, !.strings = strings]
            freed == IF st1.node_buff # NULL THEN free_buffers(st1, haveFree, log)
                     ELSE [st |-> st1, log |-> log]
            got == alloc_buffers(freed.st, buffer)
        IN  IF configNull THEN Fail("Config argument cannot be null")
            ELSE IF ~haveMalloc THEN Fail("ops.malloc() is NULL")
            ELSE IF ~RangeMapped(start, SizeofHeader) THEN Undefined
            ELSE IF be32(Load32(start)) # FDT_MAGIC THEN Fail("FDT has incorrect magic number.")
            ELSE IF ~RangeMapped(cells, 4 * cell_count) THEN Undefined
            ELSE /\ state' = got.st
                 /\ arena' = got.ar
                 /\ log' = freed.log
                 /\ pc' = "parse"
                 /\ i' = 0
                 /\ UNCHANGED <<blob, stack, op, result, out, first, heap>>

\* parse_node(offset) from its entry to its loop
ParseNodeEntry(st, ar, offset, l) ==
    IF ~alloc_node_ok(st)
    THEN [ok |-> FALSE, ub |-> FALSE, st |-> st, ar |-> ar, offset |-> offset, node |-> NULL,
          log |-> Report(Report(l, "Node allocator ran out of space"), "Node allocation failed")]
    ELSE LET node == NodePtr(st, st.node_alloc_head)
             name == st.cells + 4 * (offset + 1)
             name_len == string_len(name)
         IN  [ok |-> TRUE, ub |-> ~Terminated(name),
              st |-> [st EXCEPT !.node_alloc_head = @ + 1],
              ar |-> [ar EXCEPT !.nodes[NodeIdx(st, node) + 1].name =
                                    IF name_len = 0 THEN NULL ELSE name],
              offset |-> offset + dtb_align_up(name_len + 1, FDT_CELL_SIZE) \div FDT_CELL_SIZE + 1,
              node |-> node, log |-> l]

InLoop == pc = "parse" /\ i < state.cell_count

\* top-level loop: a cell that is not BEGIN_NODE
TopSkip ==
    /\ InLoop /\ stack = <<>>
    /\ CellAt(state, i) # U32(FDT_BEGIN_NODE)
    /\ i' = i + 1
    /\ UNCHANGED <<blob, state, arena, pc, stack, log, op, result, out, first, heap>>

\* top-level loop: parse_node(&i) is called; a NULL return is followed by
\* the loop's own i++
TopBegin ==
    /\ InLoop /\ stack = <<>>
    /\ CellAt(state, i) = U32(FDT_BEGIN_NODE)
    /\ LET r == ParseNodeEntry(state, arena, i, log)
       IN  IF r.ub THEN Undefined
           ELSE /\ state' = r.st
                /\ arena' = r.ar
                /\ log' = r.log
                /\ i' = IF r.ok THEN r.offset ELSE i + 1
                /\ stack' = IF r.ok THEN <<r.node>> ELSE <<>>
                /\ UNCHANGED <<blob, pc, op, result, out, first, heap>>

\* top-level loop: the structure block is used up, dtb_init returns true
InitReturn ==
    /\ pc = "parse" /\ stack = <<>>
    /\ i >= state.cell_count
    /\ pc' = "ready"
    /\ UNCHANGED <<blob, state, arena, i, stack, log, op, result, out, first, heap>>

Top == stack[Len(stack)]
Pop == SubSeq(stack, 1, Len(stack) - 1)

\* parse_node: the block ends inside the node; NULL goes to the caller
NodeUnterminated ==
    /\ pc = "parse" /\ stack # <<>>
    /\ i >= state.cell_count
    /\ log' = Report(log, "Node is missing terminating tag.")
    /\ stack' = Pop
    /\ i' = IF Len(stack) = 1 THEN i + 1 ELSE i
    /\ UNCHANGED <<blob, state, arena, pc, op, result, out, first, heap>>

\* parse_node: END_NODE; the node goes to the caller, which links it
NodeEnd ==
    /\ InLoop /\ stack # <<>>
    /\ CellAt(state, i) = U32(FDT_END_NODE)
    /\ stack' = Pop
    /\ LET node == Top
           n == NodeIdx(state, node) + 1
       IN  IF Len(stack) = 1
           THEN /\ arena' = [arena EXCEPT !.nodes[n].sibling = state.root]
                /\ state' = [state EXCEPT !.root = node]
                /\ i' = i + 2
           ELSE LET parent == stack[Len(stack) - 1]
                    q == NodeIdx(state, parent) + 1
                IN  /\ arena' = [arena EXCEPT !.nodes[n].sibling = arena.nodes[q].child,
                                              !.nodes[n].parent = parent,
                                              !.nodes[q].child = node]
                    /\ state' = state
                    /\ i' = i + 1
    /\ UNCHANGED <<blob, pc, log, op, result, out, first, heap>>

\* parse_node: BEGIN_NODE; the recursive call.  A NULL return is followed
\* by continue, with *offset where the callee left it.
NodeBegin ==
    /\ InLoop /\ stack # <<>>
    /\ CellAt(state, i) = U32(FDT_BEGIN_NODE)
    /\ LET r == ParseNodeEntry(state, arena, i, log)
       IN  IF r.ub THEN Undefined
           ELSE /\ state' = r.st
                /\ arena' = r.ar
                /\ log' = r.log
                /\ i' = r.offset
                /\ stack' = IF r.ok THEN Append(stack, r.node) ELSE stack
                /\ UNCHANGED <<blob, pc, op, result, out, first, heap>>

\* parse_node: PROP; parse_prop, the link into the node, check_for_special_prop
NodeProp ==
    /\ InLoop /\ stack # <<>>
    /\ CellAt(state, i) = U32(FDT_PROP)
    /\ IF ~alloc_prop_ok(state)
       THEN /\ i' = i + 1
            /\ log' = Report(Report(log, "Property allocator ran out of space"),
                             "Property allocation failed")
            /\ UNCHANGED <<blob, state, arena, pc, stack, op, result, out, first, heap>>
       ELSE LET offset == i + 1
                fdtprop == state.cells + 4 * offset
                prop == PropPtr(state, state.prop_alloc_head)
                length == Val(be32(Load32(fdtprop)))
                name_offset == Val(be32(Load32(fdtprop + 4)))
                node == Top
                n == NodeIdx(state, node) + 1
                k == PropIdx(state, prop) + 1
                st1 == [state EXCEPT !.prop_alloc_head = @ + 1]
                ar1 == [arena EXCEPT !.props[k] = [name |-> state.strings + name_offset,
                                                   first_cell |-> state.cells + 4 * (offset + 2),
                                                   length |-> length,
                                                   next |-> arena.nodes[n].props],
                                     !.nodes[n].props = prop]
                special == check_for_special_prop(st1, ar1, node, prop)
            IN  IF ~RangeMapped(fdtprop, 8) \/ special.ub THEN Undefined
                ELSE /\ state' = st1
                     /\ arena' = [ar1 EXCEPT !.handles = special.handles]
                     /\ i' = offset + dtb_align_up(length, 4) \div 4 + 2
                     /\ UNCHANGED <<blob, pc, stack, log, op, result, out, first, heap>>

\* parse_node: any other cell
NodeSkip ==
    /\ InLoop /\ stack # <<>>
    /\ CellAt(state, i) \notin {U32(FDT_END_NODE), U32(FDT_BEGIN_NODE), U32(FDT_PROP)}
    /\ i' = i + 1
    /\ UNCHANGED <<blob, state, arena, pc, stack, log, op, result, out, first, heap>>

Parse ==
    \/ TopSkip \/ TopBegin \/ InitReturn
    \/ NodeUnterminated \/ NodeEnd \/ NodeBegin \/ NodeProp \/ NodeSkip

----------------------------------------------------------------------------
(* The query API.  A node or property result is a pointer, NULL, or Fault  *)
(* when the call runs into undefined behaviour (a NULL or unmapped read).  *)

Fault == 0 - 1

\* the nodes and properties handed out so far
NodePtrs == {NodePtr(state, k) : k \in 0..(state.node_alloc_head - 1)}
PropPtrs == {PropPtr(state, k) : k \in 0..(state.prop_alloc_head - 1)}

RECURSIVE FindPropFrom(_, _, _, _)
FindPropFrom(st, ar, prop, name) ==
    IF prop = NULL THEN NULL
    ELSE LET pr == PropAt(st, ar, prop)
             prop_name_len == string_len(pr.name)
         IN  IF ~Terminated(pr.name) THEN Fault
             ELSE IF prop_name_len = string_len(name) /\ strings_eq(pr.name, name, prop_name_len)
             THEN prop
             ELSE FindPropFrom(st, ar, pr.next, name)

dtb_find_prop(st, ar, node, name) ==
    IF node = NULL THEN NULL ELSE FindPropFrom(st, ar, NodeAt(st, ar, node).props, name)

\* dtb_read_prop_string: the loop from scan on, over prop->length * 4 bytes
RECURSIVE ReadStringFrom(_, _, _, _, _)
ReadStringFrom(name, limit, index, scan, curr_index) ==
    IF scan < limit /\ Mapped(name + scan) /\ (Rd(name + scan) = 0 \/ curr_index # index)
    THEN ReadStringFrom(name, limit, index, scan + 1,
                        IF Rd(name + scan) = 0 THEN curr_index + 1 ELSE curr_index)
    ELSE IF scan >= limit THEN NULL
    ELSE IF ~Mapped(name + scan) THEN Fault
    ELSE name + scan

dtb_read_prop_string(st, ar, prop, index) ==
    IF prop = NULL THEN NULL
    ELSE LET pr == PropAt(st, ar, prop)
         IN  ReadStringFrom(pr.first_cell, pr.length * 4, index, 0, 0)

\* dtb_find_compatible: the inner loop over the strings of one property;
\* 1 when one of them makes strings_eq true, 0 when none does
RECURSIVE CompatMatchFrom(_, _, _, _, _)
CompatMatchFrom(st, ar, compat, str, ci) ==
    LET compat_str == dtb_read_prop_string(st, ar, compat, ci)
    IN  IF compat_str = NULL THEN 0
        ELSE IF compat_str = Fault THEN Fault
        ELSE IF strings_eq(compat_str, str, string_len(str)) THEN 1
        ELSE CompatMatchFrom(st, ar, compat, str, ci + 1)

\* dtb_find_compatible: the outer loop from node index idx on
RECURSIVE FindCompatibleFrom(_, _, _, _)
FindCompatibleFrom(st, ar, idx, str) ==
    IF idx >= st.node_alloc_head THEN NULL
    ELSE LET node == NodePtr(st, idx)
             compat == dtb_find_prop(st, ar, node, LitCompatible)
             hit == IF compat \in {NULL, Fault} THEN 0
                    ELSE CompatMatchFrom(st, ar, compat, str, 0)
         IN  IF compat = Fault \/ hit = Fault THEN Fault
             ELSE IF hit = 1 THEN node
             ELSE FindCompatibleFrom(st, ar, idx + 1, str)

dtb_find_compatible(st, ar, start, str) ==
    FindCompatibleFrom(st, ar, IF start = NULL THEN 0 ELSE NodeIdx(st, start) + 1, str)

dtb_find_phandle(st, ar, handle) ==
    IF handle < st.node_alloc_max THEN ar.handles[handle + 1] ELSE NULL

\* a child test that compares the segment's bytes only
ChildMatchesAnyLength(child_name, child_name_len, name, name_bounds) ==
    strings_eq(child_name, name, name_bounds)

\* find_child_internal: the test of one child against the segment
ChildMatches(child_name, child_name_len, name, name_bounds) ==
    child_name_len = name_bounds /\ strings_eq(child_name, name, name_bounds)

RECURSIVE FindChildFrom(_, _, _, _, _)
FindChildFrom(st, ar, scan, name, name_bounds) ==
    IF scan = NULL THEN NULL
    ELSE LET nd == NodeAt(st, ar, scan)
             at == string_find_char(nd.name, ChAt)
             child_name_len == IF at = NPOS THEN string_len(nd.name) ELSE at
         IN  IF nd.name = NULL \/ ~Terminated(nd.name) THEN Fault
             ELSE IF ChildMatches(nd.name, child_name_len, name, name_bounds)
             THEN scan
             ELSE FindChildFrom(st, ar, nd.sibling, name, name_bounds)

find_child_internal(st, ar, start, name, name_bounds) ==
    FindChildFrom(st, ar, NodeAt(st, ar, start).child, name, name_bounds)

RECURSIVE SkipSlashes(_)
SkipSlashes(name) == IF Rd(name) = ChSlash THEN SkipSlashes(name + 1) ELSE name

RECURSIVE FindFrom(_, _, _, _)
FindFrom(st, ar, scan, name) ==
    IF scan = NULL THEN NULL
    ELSE IF scan = Fault THEN Fault
    ELSE LET name1 == SkipSlashes(name)
             slash == string_find_char(name1, ChSlash)
             seg_len == IF slash = NPOS THEN string_len(name1) ELSE slash
         IN  IF seg_len = 0 THEN scan
             ELSE FindFrom(st, ar, find_child_internal(st, ar, scan, name1, seg_len),
                           name1 + seg_len)

dtb_find(st, ar, name) == FindFrom(st, ar, st.root, name)

\* the tree is parsed and no API call has been made on it yet; the stage
\* that is handed the serialized image only parses it
Idle == pc = "ready" /\ op = <<"none">> /\ first = <<>>

\* an API call on the parsed tree: its record in op, its return value in
\* result; undefined behaviour ends the run
Call(what, value, ub) ==
    /\ pc' = IF ub THEN "undefined" ELSE "ready"
    /\ op' = what
    /\ result' = value
    /\ UNCHANGED <<blob, state, arena, i, stack, log, out, first, heap>>

Find ==
    /\ Idle
    /\ \E path \in PathArgs :
        LET r == dtb_find(state, arena, path)
        IN  Call(<<"find", path>>, r, r = Fault)

FindCompatible ==
    /\ Idle
    /\ \E start \in NodePtrs \cup {NULL}, str \in CompatArgs :
        LET r == dtb_find_compatible(state, arena, start, str)
        IN  Call(<<"find_compatible", start, str>>, r, r = Fault)

FindPhandle ==
    /\ Idle
    /\ \E handle \in 0..state.node_alloc_max :
        Call(<<"find_phandle", handle>>, dtb_find_phandle(state, arena, handle), FALSE)

Lookup == Find \/ FindCompatible \/ FindPhandle

----------------------------------------------------------------------------
(* dtb_create_prop and the decode API, as a caller uses them on a parsed   *)
(* tree.                                                                   *)

\* the names the caller passes to dtb_create_prop
CreateNames == {NULL, PoolAddr(4)}
\* what a byte of malloc'd memory holds before it is written
HeapJunk == {0, 85}

\* dtb_create_prop(node, name).  memcpy fills name_len of the name_len + 1
\* bytes malloc returned; the last one keeps what it held.
CreateProp ==
    /\ Idle
    /\ \E node \in NodePtrs \cup {NULL}, name \in CreateNames, junk \in HeapJunk :
        /\ op' = <<"create_prop", node, name>>
        /\ IF node = NULL
           THEN /\ log' = Report(log, "Cannot create property of NULL node.")
                /\ result' = NULL
                /\ UNCHANGED <<state, arena, heap>>
           ELSE IF name = NULL
           THEN /\ log' = Report(log, "Property cannot have NULL name.")
                /\ result' = NULL
                /\ UNCHANGED <<state, arena, heap>>
           ELSE LET name_buf == HeapBase + Len(heap)
                    prop == PropPtr(state, state.prop_alloc_head)
                    n == NodeIdx(state, node) + 1
                    k == PropIdx(state, prop) + 1
                IN  /\ heap' = heap \o CStr(name) \o <<junk>>
                    /\ IF ~alloc_prop_ok(state)
                       THEN /\ log' = Report(Report(log, "Property allocator ran out of space"),
                                             "Failed to allocate property")
                            /\ result' = NULL
                            /\ UNCHANGED <<state, arena>>
                       ELSE /\ state' = [state EXCEPT !.prop_alloc_head = @ + 1]
                            /\ arena' = [arena EXCEPT
                                            !.props[k] = [name |-> name_buf, first_cell |-> NULL,
                                                          length |-> 0,
                                                          next |-> arena.nodes[n].props],
                                            !.nodes[n].props = prop]
                            /\ result' = prop
                            /\ log' = log
        /\ UNCHANGED <<blob, pc, i, stack, out, first>>

\* the tree is parsed and at most a property has been created on it
Readable == pc = "ready" /\ op[1] \in {"none", "create_prop"}

\* the widths a layout of the tuple decoders can name
TupleWidths == 0..MaxTupleWidth

ReadPropString ==
    /\ Readable
    /\ \E prop \in PropPtrs \cup {NULL}, index \in 0..MaxIndex :
       \E r \in {dtb_read_prop_string(state, arena, prop, index)} :
        Call(<<"read_prop_string", prop, index>>, r, r = Fault)

\* a typed decoder's call: the count it returns and what it wrote to vals
Decoded(what, prop, widths, wantVals, r) ==
    Call(<<what, prop, widths, wantVals>>, [count |-> r.count, vals |-> r.vals], r.ub)

ReadPropValues ==
    /\ Readable
    /\ \E prop \in PropPtrs \cup {NULL}, cell_count \in 0..MaxWidth, wantVals \in BOOLEAN :
       \E r \in {dtb_read_prop_values(state, arena, prop, cell_count, wantVals)} :
        Decoded("read_prop_values", prop, <<cell_count>>, wantVals, r)

ReadPropPairs ==
    /\ Readable
    /\ \E prop \in PropPtrs \cup {NULL}, layout \in [a : 0..MaxWidth, b : 0..MaxWidth],
          wantVals \in BOOLEAN :
       \E r \in {dtb_read_prop_pairs(state, arena, prop, layout, wantVals)} :
        Decoded("read_prop_pairs", prop, <<layout.a, layout.b>>, wantVals, r)

ReadPropTriplets ==
    /\ Readable
    /\ \E prop \in PropPtrs \cup {NULL}, layout \in [a : TupleWidths, b : TupleWidths, c : TupleWidths],
          wantVals \in BOOLEAN :
       \E r \in {dtb_read_prop_triplets(state, arena, prop, layout, wantVals)} :
        Decoded("read_prop_triplets", prop, <<layout.a, layout.b, layout.c>>, wantVals, r)

ReadPropQuads ==
    /\ Readable
    /\ \E prop \in PropPtrs \cup {NULL},
          layout \in [a : TupleWidths, b : TupleWidths, c : TupleWidths, d : TupleWidths],
          wantVals \in BOOLEAN :
       \E r \in {dtb_read_prop_quads(state, arena, prop, layout, wantVals)} :
        Decoded("read_prop_quads", prop, <<layout.a, layout.b, layout.c, layout.d>>, wantVals, r)

Decode == ReadPropString \/ ReadPropValues \/ ReadPropPairs \/ ReadPropTriplets \/ ReadPropQuads

----------------------------------------------------------------------------
(* dtb_create_sibling and dtb_create_child.                                *)

\* the names the caller passes for a new node: "a", "ab"
CreateNodeNames == {NULL, PoolAddr(4), PoolAddr(5)}

\* strings_eq(a, b, len) reads mapped memory only
RECURSIVE StringsEqMappedFrom(_, _, _, _)
StringsEqMappedFrom(a, b, len, k) ==
    IF k >= len THEN TRUE
    ELSE IF ~Mapped(a + k) \/ ~Mapped(b + k) THEN FALSE
    ELSE IF (Rd(a + k) = 0 /\ Rd(b + k) = 0) \/ Rd(a + k) # Rd(b + k) THEN TRUE
    ELSE StringsEqMappedFrom(a, b, len, k + 1)

\* the scan for a name in use, from scan along the sibling links: "used"
\* when strings_eq holds for a node, "fault" when it reads outside mapped
\* memory (a NULL name among them), "free" at the end of the chain
RECURSIVE NameInUseFrom(_, _, _, _, _)
NameInUseFrom(st, ar, scan, name, name_len) ==
    IF scan = NULL THEN "free"
    ELSE IF ~StringsEqMappedFrom(NodeAt(st, ar, scan).name, name, name_len, 0) THEN "fault"
    ELSE IF strings_eq(NodeAt(st, ar, scan).name, name, name_len) THEN "used"
    ELSE NameInUseFrom(st, ar, NodeAt(st, ar, scan).sibling, name, name_len)

\* the tree is parsed and only nodes have been created on it since; the
\* caller goes on as long as it is handed the node it asked for
Growable ==
    /\ pc = "ready" /\ first = <<>>
    /\ op[1] = "none" \/ (op[1] \in {"create_sibling", "create_child"} /\ result # NULL)

\* a create call that returns NULL after reporting msgs
CreateRefused(l, msgs) ==
    /\ log' = IF Len(msgs) = 2 THEN Report(Report(l, msgs[1]), msgs[2]) ELSE Report(l, msgs[1])
    /\ result' = NULL
    /\ pc' = "ready"
    /\ UNCHANGED <<state, arena>>

\* the part the two calls share, from string_len(name) on: scan is where the
\* scan for the name starts, nomem the message of a failed allocation,
\* parent and sibling the links of the new node, and link the field of node
\* that is made to point to it
CreateNode(nomem, node, name, junk, scan, parent, sibling, link) ==
    \E verdict \in {NameInUseFrom(state, arena, scan, name, string_len(name))} :
        IF verdict = "fault"
        THEN /\ pc' = "undefined"
             /\ result' = NULL
             /\ UNCHANGED <<state, arena, log, heap>>
        ELSE IF verdict = "used"
        THEN /\ CreateRefused(log, <<"Node name already in use.">>)
             /\ heap' = heap
        ELSE /\ heap' = heap \o CStr(name) \o <<junk>>
             /\ IF ~alloc_node_ok(state)
                THEN CreateRefused(log, <<"Node allocator ran out of space", nomem>>)
                ELSE \E new \in {NodePtr(state, state.node_alloc_head)} :
                     /\ state' = [state EXCEPT !.node_alloc_head = @ + 1]
                     /\ arena' = [arena EXCEPT
                                    !.nodes[NodeIdx(state, new) + 1].name = HeapBase + Len(heap),
                                    !.nodes[NodeIdx(state, new) + 1].parent = parent,
                                    !.nodes[NodeIdx(state, new) + 1].sibling = sibling,
                                    !.nodes[NodeIdx(state, node) + 1][link] = new]
                     /\ result' = new
                     /\ log' = log
                     /\ pc' = "ready"

\* dtb_create_sibling(node, name)
CreateSibling ==
    /\ Growable
    /\ \E node \in NodePtrs \cup {NULL}, name \in CreateNodeNames, junk \in HeapJunk :
        /\ op' = <<"create_sibling", node, name>>
        /\ IF node = NULL
           THEN CreateRefused(log, <<"Cannot create sibling of NULL node.">>) /\ heap' = heap
           ELSE IF name = NULL
           THEN CreateRefused(log, <<"Sibling cannot have empty name.">>) /\ heap' = heap
           ELSE CreateNode("Failed to allocate node for sibling.", node, name, junk, node,
                    NodeAt(state, arena, node).parent, NodeAt(state, arena, node).sibling,
                    "sibling")
        /\ UNCHANGED <<blob, i, stack, out, first>>

\* dtb_create_child(node, name)
CreateChild ==
    /\ Growable
    /\ \E node \in NodePtrs \cup {NULL}, name \in CreateNodeNames, junk \in HeapJunk :
        /\ op' = <<"create_child", node, name>>
        /\ IF node = NULL
           THEN CreateRefused(log, <<"Cannot create child of NULL node.">>) /\ heap' = heap
           ELSE IF name = NULL
           THEN CreateRefused(log, <<"Child cannot have empty name.">>) /\ heap' = heap
           ELSE CreateNode("Failed to allocate node for child.", node, name, junk,
                    NodeAt(state, arena, node).child,
                    node, NodeAt(state, arena, node).child, "child")
        /\ UNCHANGED <<blob, i, stack, out, first>>

----------------------------------------------------------------------------
(* The serializer. *)

\* e, worked out once and handed to In
With(e, In(_)) == CHOOSE r \in {In(x) : x \in {e}} : TRUE

\* (size_t)-1, SMOLDTB_FINALISE_FAILURE
FinaliseFailure == 0 - 1

\* a byte of the caller's buffer that the serializer does not write
Hole == 0 - 1

Holes(n) == [k \in 1..n |-> Hole]

\* the bytes a uint32_t store of w leaves in memory on the little-endian host
Store32(w) == <<w[4], w[3], w[2], w[1]>>

\* the nodes from begin along the sibling links
RECURSIVE Siblings(_, _, _)
Siblings(st, ar, begin) ==
    IF begin = NULL THEN <<>>
    ELSE <<begin>> \o Siblings(st, ar, NodeAt(st, ar, begin).sibling)

\* the properties from prop along the next links
RECURSIVE PropChain(_, _, _)
PropChain(st, ar, prop) ==
    IF prop = NULL THEN <<>>
    ELSE <<prop>> \o PropChain(st, ar, PropAt(st, ar, prop).next)

NameCells(name) == dtb_align_up(string_len(name) + 1, FDT_CELL_SIZE) \div FDT_CELL_SIZE
DataCells(pr) == dtb_align_up(pr.length, FDT_CELL_SIZE) \div FDT_CELL_SIZE

\* a sizing of a property that leaves out the terminator of its name
SizePropNoTerminator(st, ar, prop, data) ==
    LET pr == PropAt(st, ar, prop)
    IN  [data EXCEPT !.struct_buf_size = @ + 3 + DataCells(pr),
                     !.string_buf_size = @ + string_len(pr.name)]

\* init_finalise_data_prop
init_finalise_data_prop(st, ar, prop, data) ==
    LET pr == PropAt(st, ar, prop)
    IN  [data EXCEPT !.struct_buf_size = @ + 3 + DataCells(pr),
                     !.string_buf_size = @ + string_len(pr.name) + 1]

RECURSIVE SizeProps(_, _, _, _)
SizeProps(st, ar, props, data) ==
    IF props = <<>> THEN data
    ELSE SizeProps(st, ar, Tail(props), init_finalise_data_prop(st, ar, Head(props), data))

\* init_finalise_data over the nodes of a sibling list
RECURSIVE SizeNodes(_, _, _, _)
SizeNodes(st, ar, nodes, data) ==
    IF nodes = <<>> THEN data
    ELSE LET nd == NodeAt(st, ar, Head(nodes))
             d1 == [data EXCEPT !.struct_buf_size = @ + 2 + NameCells(nd.name)]
             d2 == SizeProps(st, ar, PropChain(st, ar, nd.props), d1)
             d3 == SizeNodes(st, ar, Siblings(st, ar, nd.child), d2)
         IN  SizeNodes(st, ar, Tail(nodes), d3)

\* struct_ptr and string_ptr of the emission pass
StructPtr(data) == Len(data.struct_buf) \div 4
StringPtr(data) == Len(data.string_buf)

\* print_prop
print_prop(st, ar, prop, data) ==
    With(PropAt(st, ar, prop), LAMBDA pr :
    With([data EXCEPT !.string_buf = @ \o CStr(pr.name) \o <<0>>], LAMBDA d1 :
        IF StringPtr(data) + string_len(pr.name) + 1 > data.string_buf_size
        THEN [data EXCEPT !.print_success = FALSE]
        ELSE IF StructPtr(d1) + 3 + DataCells(pr) > d1.struct_buf_size
        THEN [d1 EXCEPT !.print_success = FALSE]
        ELSE [d1 EXCEPT !.struct_buf = @ \o Store32(be32(U32(FDT_PROP)))
                                         \o Store32(be32(U32(pr.length)))
                                         \o Store32(be32(U32(StringPtr(data))))
                                         \o Flatten([k \in 1..DataCells(pr) |->
                                                Store32(Load32(pr.first_cell + 4 * (k - 1)))]),
                        !.ub = @ \/ ~Terminated(pr.name)
                                 \/ ~RangeMapped(pr.first_cell, 4 * DataCells(pr))]))

\* do_foreach_prop with print_prop: stops at the first property that fails
RECURSIVE PrintProps(_, _, _, _)
PrintProps(st, ar, props, data) ==
    IF props = <<>> \/ ~data.print_success THEN data
    ELSE PrintProps(st, ar, Tail(props), print_prop(st, ar, Head(props), data))

\* print_node once its children are printed: the FDT_END_NODE token
print_node_end(d3) ==
    IF ~d3.print_success THEN d3
    ELSE IF StructPtr(d3) + 1 > d3.struct_buf_size
    THEN [d3 EXCEPT !.print_success = FALSE]
    ELSE [d3 EXCEPT !.struct_buf = @ \o Store32(be32(U32(FDT_END_NODE)))]

\* do_foreach_sibling with print_node: stops at the first node that fails
RECURSIVE PrintNodes(_, _, _, _)
PrintNodes(st, ar, nodes, data) ==
    IF nodes = <<>> \/ ~data.print_success THEN data
    ELSE With(NodeAt(st, ar, Head(nodes)), LAMBDA nd :
         IF StructPtr(data) + 1 + NameCells(nd.name) > data.struct_buf_size
         THEN [data EXCEPT !.print_success = FALSE]
         ELSE With(PrintProps(st, ar, PropChain(st, ar, nd.props),
                    [data EXCEPT !.struct_buf = @ \o Store32(be32(U32(FDT_BEGIN_NODE)))
                                                  \o CStr(nd.name) \o <<0>>
                                                  \o Holes(NameCells(nd.name) * 4
                                                            - string_len(nd.name) - 1),
                                 !.ub = @ \/ ~Terminated(nd.name)]), LAMBDA d2 :
              PrintNodes(st, ar, Tail(nodes),
                  print_node_end(IF d2.print_success
                                 THEN PrintNodes(st, ar, Siblings(st, ar, nd.child), d2)
                                 ELSE d2))))

\* the sizing pass of dtb_finalise_to_buffer
FinaliseSizes(st, ar) ==
    SizeNodes(st, ar, Siblings(st, ar, st.root), [struct_buf_size |-> 0, string_buf_size |-> 1])

TotalBytes(sizes) ==
    sizes.string_buf_size + sizes.struct_buf_size * FDT_CELL_SIZE + SizeofHeader + 16

\* the emission pass: what is written, by offset from buffer; Hole where
\* nothing is
FinaliseWrites(st, ar, boot_cpu_id) ==
    LET sizes == FinaliseSizes(st, ar)
        struct_buf_bytes == sizes.struct_buf_size * FDT_CELL_SIZE
        total_bytes == TotalBytes(sizes)
        offset_structs == be32(U32(SizeofHeader + 16))
        header == Store32(be32(FDT_MAGIC)) \o Store32(be32(U32(total_bytes)))
                    \o Store32(offset_structs)
                    \o Store32(be32(U32(Val(be32(offset_structs)) + struct_buf_bytes)))
                    \o Store32(be32(U32(SizeofHeader))) \o Store32(be32(U32(FDT_VERSION)))
                    \o Store32(be32(U32(16))) \o Store32(be32(U32(boot_cpu_id)))
                    \o Store32(be32(U32(sizes.string_buf_size)))
                    \o Store32(be32(U32(struct_buf_bytes)))
        data == PrintNodes(st, ar, Siblings(st, ar, st.root),
                    [struct_buf |-> <<>>, string_buf |-> <<0>>,
                     struct_buf_size |-> sizes.struct_buf_size,
                     string_buf_size |-> sizes.string_buf_size,
                     print_success |-> TRUE, ub |-> FALSE])
    IN  [data |-> data,
         bytes |-> header \o Zeros(16)
                    \o data.struct_buf \o Holes(struct_buf_bytes - Len(data.struct_buf))
                    \o data.string_buf]

\* one past the last offset written
RECURSIVE WrittenEnd(_)
WrittenEnd(bytes) ==
    IF bytes = <<>> THEN 0
    ELSE IF bytes[Len(bytes)] # Hole THEN Len(bytes)
    ELSE WrittenEnd(SubSeq(bytes, 1, Len(bytes) - 1))

BufferArgs == {NULL, OutBase, OutBase + 2}
\* the buffer sizes tried, around the size needed
BufferSizes(total) == {0, total - 8, total, total + 8}
\* what the caller's buffer holds before the call
BufferFill == {0, 85}
BootCpuIds == {0}

\* dtb_finalise_to_buffer(buffer, buffer_size, boot_cpu_id).  result is the
\* return value and how far the call wrote.
Finalise ==
    /\ Idle
    /\ \E total_bytes \in {TotalBytes(FinaliseSizes(state, arena))} :
       \E buffer \in BufferArgs, fill \in BufferFill, boot_cpu_id \in BootCpuIds,
          buffer_size \in BufferSizes(total_bytes) :
        /\ op' = <<"finalise", buffer, buffer_size>>
        /\ IF buffer = NULL \/ total_bytes < buffer_size \/ buffer % 4 # 0
           THEN /\ out' = IF buffer = NULL THEN <<>> ELSE [k \in 1..buffer_size |-> fill]
                /\ result' = [ret |-> total_bytes, wrote |-> 0]
                /\ pc' = "ready"
           ELSE \E w \in {FinaliseWrites(state, arena, boot_cpu_id)} :
                /\ out' = [k \in 1..buffer_size |->
                            IF k <= Len(w.bytes) /\ w.bytes[k] # Hole THEN w.bytes[k] ELSE fill]
                /\ result' = [ret |-> IF w.data.print_success THEN total_bytes
                                      ELSE FinaliseFailure,
                              wrote |-> WrittenEnd(w.bytes)]
                /\ pc' = IF w.data.ub \/ WrittenEnd(w.bytes) > buffer_size
                         THEN "undefined" ELSE "ready"
        /\ UNCHANGED <<blob, state, arena, i, stack, log, first, heap>>

----------------------------------------------------------------------------
(* The tree as its readers see it: names, property names, lengths and      *)
(* payload cells, children; each level as a bag.                           *)

BagOf(items) ==
    [x \in {items[k] : k \in DOMAIN items} |-> Cardinality({k \in DOMAIN items : items[k] = x})]

PropView(st, ar, prop) ==
    LET pr == PropAt(st, ar, prop)
    IN  [name |-> CStr(pr.name), length |-> pr.length,
         cells |-> [k \in 1..(4 * DataCells(pr)) |-> Rd(pr.first_cell + k - 1)]]

RECURSIVE NodeView(_, _, _)
NodeView(st, ar, node) ==
    LET nd == NodeAt(st, ar, node)
        props == PropChain(st, ar, nd.props)
        kids == Siblings(st, ar, nd.child)
    IN  [name |-> CStr(nd.name),
         props |-> BagOf([k \in DOMAIN props |-> PropView(st, ar, props[k])]),
         kids |-> BagOf([k \in DOMAIN kids |-> NodeView(st, ar, kids[k])])]

TreeView(st, ar) ==
    LET roots == Siblings(st, ar, st.root)
    IN  BagOf([k \in DOMAIN roots |-> NodeView(st, ar, roots[k])])

\* The buffer dtb_finalise_to_buffer was given goes to the next boot stage,
\* which parses it in a context of its own.  The caller hands over a buffer
\* that was aligned and at least as large as the size the call returned.
Handoff ==
    /\ pc = "ready" /\ first = <<>>
    /\ op[1] = "finalise"
    /\ op[2] # NULL /\ op[2] % 4 = 0
    /\ result.ret # FinaliseFailure /\ op[3] >= result.ret
    /\ first' = <<[tree |-> TreeView(state, arena), wellformed |-> blob \in WellFormedImages]>>
    /\ blob' = out
    /\ out' = <<>>
    /\ state' = ZeroState
    /\ arena' = ZeroArena
    /\ pc' = "start"
    /\ i' = 0
    /\ stack' = <<>>
    /\ log' = <<>>
    /\ op' = <<"none">>
    /\ result' = <<>>
    /\ heap' = <<>>

Next == DtbInit \/ Parse \/ Lookup \/ Finalise \/ Handoff

Spec == Init /\ [][Next]_vars

\* The decode API on the images of DecodeImages.
DecodeInit ==
    /\ blob \in DecodeImages
    /\ state = ZeroState
    /\ arena = ZeroArena
    /\ pc = "start"
    /\ i = 0
    /\ stack = <<>>
    /\ log = <<>>
    /\ op = <<"none">>
    /\ result = <<>>
    /\ out = <<>>
    /\ first = <<>>
    /\ heap = <<>>

DecodeNext == DtbInit \/ Parse \/ CreateProp \/ Decode

DecodeSpec == DecodeInit /\ [][DecodeNext]_vars

\* a caller that parses an image of any make and queries the tree
ParseInit ==
    /\ blob \in ParseImages
    /\ state = ZeroState
    /\ arena = ZeroArena
    /\ pc = "start"
    /\ i = 0
    /\ stack = <<>>
    /\ log = <<>>
    /\ op = <<"none">>
    /\ result = <<>>
    /\ out = <<>>
    /\ first = <<>>
    /\ heap = <<>>

ParseNext == DtbInit \/ Parse \/ Lookup

ParseSpec == ParseInit /\ [][ParseNext]_vars

\* a caller that adds nodes to the parsed tree
CreateNext == DtbInit \/ Parse \/ CreateSibling \/ CreateChild

CreateInit ==
    /\ blob \in CreateImages
    /\ state = ZeroState
    /\ arena = ZeroArena
    /\ pc = "start"
    /\ i = 0
    /\ stack = <<>>
    /\ log = <<>>
    /\ op = <<"none">>
    /\ result = <<>>
    /\ out = <<>>
    /\ first = <<>>
    /\ heap = <<>>

CreateSpec == CreateInit /\ [][CreateNext]_vars

\* The caller of a context that dtb_init has returned true for calls dtb_init
\* again, with another blob: the call starts from the state the context
\* holds.
Reinit ==
    /\ pc = "ready" /\ op = <<"none">> /\ first = <<>>
    /\ \E b \in ReinitImages : blob' = b
    /\ pc' = "start"
    /\ op' = <<"reinit">>
    /\ UNCHANGED <<state, arena, i, stack, log, result, out, first, heap>>

ReinitInit ==
    /\ blob \in ReinitImages
    /\ state = ZeroState
    /\ arena = ZeroArena
    /\ pc = "start"
    /\ i = 0
    /\ stack = <<>>
    /\ log = <<>>
    /\ op = <<"none">>
    /\ result = <<>>
    /\ out = <<>>
    /\ first = <<>>
    /\ heap = <<>>

ReinitNext == DtbInit \/ Parse \/ Reinit

ReinitSpec == ReinitInit /\ [][ReinitNext]_vars

----------------------------------------------------------------------------
(* The properties checked.                                                 *)

AllocatorMessages ==
    {"Node allocator ran out of space", "Property allocator ran out of space"}

\* the image that holds a single empty root node
EmptyRootImage == ImageOf(FDT_MAGIC, NodeEnc(<<>>, <<>>, <<>>) \o EndOfStruct)

\* C1: on a well-formed image the allocators never report exhaustion during
\* the parse, and the image of a single empty root node leaves a non-null
\* root once dtb_init has returned.
C1_NeverUnderAllocates ==
    blob \in WellFormedImages =>
        /\ \A k \in 1..Len(log) : log[k] \notin AllocatorMessages
        /\ (pc = "ready" /\ blob = EmptyRootImage => state.root # NULL)

\* C2: every step of the parse moves the cursor forward, returns from a
\* parse_node call or ends the parse; a failed allocation in the middle of
\* the parse is no exception.
C2_CursorAdvances ==
    [][pc = "parse" => (i' > i \/ Len(stack') < Len(stack) \/ pc' # "parse")]_vars

\* the properties of a node, as a set
PropsOf(node) ==
    LET chain == PropChain(state, arena, NodeAt(state, arena, node).props)
    IN  {chain[k] : k \in DOMAIN chain}

\* the first cell of a payload, read as the big-endian number it is
PayloadWord(pr) ==
    Val(<<Rd(pr.first_cell), Rd(pr.first_cell + 1), Rd(pr.first_cell + 2), Rd(pr.first_cell + 3)>>)

\* C3: after dtb_init, a node that carries a property phandle or
\* linux,phandle of value h below the number of node records is what
\* dtb_find_phandle(h) returns.
C3_PhandleIndexed ==
    pc = "ready" =>
        \A node \in NodePtrs : \A prop \in PropsOf(node) :
            \E pr \in {PropAt(state, arena, prop)} :
                (/\ CStr(pr.name) \in {StrPhandle, StrLinuxPhandle}
                 /\ pr.length = FDT_CELL_SIZE
                 /\ PayloadWord(pr) < state.node_alloc_max)
                    => dtb_find_phandle(state, arena, PayloadWord(pr)) = node

\* C4: dtb_finalise_to_buffer returns the total and writes nothing when the
\* buffer is null, smaller than the total or misaligned, and never writes at
\* or past buffer_size.
C4_FinaliseGuards ==
    op[1] = "finalise" =>
        \E total \in {TotalBytes(FinaliseSizes(state, arena))} :
            /\ (op[2] = NULL \/ op[3] < total \/ op[2] % 4 # 0)
                    => (result.ret = total /\ result.wrote = 0)
            /\ result.wrote <= op[3]

\* C5: a well-formed image that is parsed, serialized into an aligned buffer
\* of at least the returned size and parsed again gives the tree it gave the
\* first time.
C5_RoundTrip ==
    (first # <<>> /\ first[1].wellformed) =>
        /\ \A k \in 1..Len(log) : log[k] # "FDT has incorrect magic number."
        /\ pc # "undefined"
        /\ (pc = "ready" => TreeView(state, arena) = first[1].tree)

\* the least element of a non-empty set of numbers
Least(S) == CHOOSE k \in S : \A m \in S : k <= m

\* the bytes of a property's payload, prop.length of them
Payload(pr) == [k \in 1..pr.length |-> Rd(pr.first_cell + k - 1)]

\* the offsets at which the NUL-terminated strings of a payload start
StringStarts(bytes) ==
    {k \in 0..(Len(bytes) - 1) : k = 0 \/ bytes[k] = 0}

\* the string that starts at offset off of a payload, without its NUL
StringAt(bytes, off) ==
    LET ends == {k \in (off + 1)..Len(bytes) : bytes[k] = 0}
    IN  SubSeq(bytes, off + 1, IF ends = {} THEN Len(bytes) ELSE Least(ends) - 1)

\* the compatible property of a node: the first of its chain with that name
CompatibleOf(node) ==
    LET chain == PropChain(state, arena, NodeAt(state, arena, node).props)
        hits == {k \in DOMAIN chain : CStr(PropAt(state, arena, chain[k]).name) = StrCompatible}
    IN  IF hits = {} THEN NULL ELSE chain[Least(hits)]

\* node's compatible property lists a string equal to str
HasCompatible(node, str) ==
    \E compat \in {CompatibleOf(node)} :
        /\ compat # NULL
        /\ \E bytes \in {Payload(PropAt(state, arena, compat))} :
            \E off \in StringStarts(bytes) : StringAt(bytes, off) = str

\* the node dtb_find_compatible(start, str) is to return
ExactCompatible(start, str) ==
    LET from == IF start = NULL THEN 0 ELSE NodeIdx(state, start) + 1
        hits == {k \in from..(state.node_alloc_head - 1) : HasCompatible(NodePtr(state, k), str)}
    IN  IF hits = {} THEN NULL ELSE NodePtr(state, Least(hits))

\* C6: dtb_find_compatible(start, str) returns the first allocated node
\* after start whose compatible property lists a string equal to str in
\* bytes and length, and null when there is none.
C6_CompatibleExact ==
    op[1] = "find_compatible" => result = ExactCompatible(op[2], CStr(op[3]))

\* a sequence up to the first ch in it
Before(seq, ch) ==
    LET hits == {k \in 1..Len(seq) : seq[k] = ch}
    IN  IF hits = {} THEN seq ELSE SubSeq(seq, 1, Least(hits) - 1)

RECURSIVE DropSlashes(_)
DropSlashes(path) ==
    IF path # <<>> /\ Head(path) = ChSlash THEN DropSlashes(Tail(path)) ELSE path

\* the first child of scan whose name without its unit address is seg
ChildNamed(scan, seg) ==
    LET kids == Siblings(state, arena, NodeAt(state, arena, scan).child)
        hits == {k \in DOMAIN kids :
                    Before(CStr(NodeAt(state, arena, kids[k]).name), ChAt) = seg}
    IN  IF hits = {} THEN NULL ELSE kids[Least(hits)]

\* the descent from scan along path, a segment at a time
RECURSIVE Descend(_, _)
Descend(scan, path) ==
    IF scan = NULL THEN NULL
    ELSE LET rest == DropSlashes(path)
             seg == Before(rest, ChSlash)
         IN  IF rest = <<>> THEN scan
             ELSE Descend(ChildNamed(scan, seg), SubSeq(rest, Len(seg) + 1, Len(rest)))

\* C7: dtb_find(path) descends from the root a segment at a time; a segment
\* selects the child whose name without its @unit-address equals it in bytes
\* and length; the result is null once a segment selects no child and the
\* current node when the rest of the path is empty after its slashes.
C7_FindDescends ==
    (op[1] = "find" /\ pc = "ready") => result = Descend(state.root, CStr(op[2]))

\* C7 seen: the path /a finds the child a@1, and /a@1 finds nothing.
C7_Witness ==
    /\ op[1] = "find" /\ pc = "ready"
    /\ CStr(op[2]) = <<ChSlash>> \o StrA
    /\ result # NULL
    /\ CStr(NodeAt(state, arena, result).name) = StrA1
    /\ dtb_find(state, arena, PoolAddr(9)) = NULL

\* the string dtb_read_prop_string(prop, index) is to return
IndexedString(pr, index) ==
    LET starts == StringStarts(Payload(pr))
    IN  IF index >= Cardinality(starts) THEN NULL
        ELSE pr.first_cell + (CHOOSE s \in starts : Cardinality({t \in starts : t < s}) = index)

\* C8: dtb_read_prop_string(prop, index) returns the start of the index-th
\* string of the first prop.length payload bytes, null when index is at or
\* past their number, and never a pointer at or past first_cell + length.
C8_StringWithinPayload ==
    (op[1] = "read_prop_string" /\ op[2] # NULL) =>
        \E pr \in {PropAt(state, arena, op[2])} :
            /\ result = IndexedString(pr, op[3])
            /\ (result # NULL => result < pr.first_cell + pr.length)

\* C9: for a property of the tree, parsed or created, and k > 0,
\* dtb_read_prop_values(p, k, NULL) returns p.length / (k * 4) and reads
\* nothing outside the property and its payload.
C9_ValueCount ==
    (op[1] = "read_prop_values" /\ op[2] # NULL /\ op[3][1] > 0 /\ ~op[4]) =>
        /\ pc = "ready"
        /\ result.count = PropAt(state, arena, op[2]).length \div (op[3][1] * FDT_CELL_SIZE)

TypedDecoders ==
    {"read_prop_values", "read_prop_pairs", "read_prop_triplets", "read_prop_quads"}

\* the k cells at p read as one big-endian number, most significant cell
\* first, in the eight bytes of the accumulator
BigEndianValue(p, k) == Zeros(8 - 4 * k) \o [b \in 1..(4 * k) |-> Rd(p + b - 1)]

\* C10: every value a typed decoder writes for a group of k cells at p is
\* the sum of be32(p[i]) << ((k - 1 - i) * 32), that is the k cells read as
\* one big-endian number, for the k that fit the 64-bit accumulator.
C10_DecodedValues ==
    (/\ op[1] \in TypedDecoders /\ pc = "ready" /\ op[4]
     /\ \A j \in 1..Len(op[3]) : 32 * op[3][j] <= 64) =>
        \A t \in 1..result.count : \A j \in 1..Len(op[3]) :
            result.vals[t][j] =
                BigEndianValue(PropAt(state, arena, op[2]).first_cell
                                 + 4 * ((t - 1) * Sum(op[3]) + Sum(SubSeq(op[3], 1, j - 1))),
                               op[3][j])

\* C10 seen: the payload 00 00 00 01 00 00 00 02 read with k = 2 is the one
\* value 0x100000002.
C10_Witness ==
    /\ op[1] = "read_prop_values" /\ pc = "ready" /\ op[3] = <<2>> /\ op[4]
    /\ result.count = 1
    /\ result.vals[1][1] = <<0, 0, 0, 1, 0, 0, 0, 2>>

\* the name of a node, as the bytes up to its NUL
NameOf(node) == CStr(NodeAt(state, arena, node).name)

\* the sibling sets of the tree: the root list and the children of each node
SiblingSets ==
    {Siblings(state, arena, state.root)}
        \cup {Siblings(state, arena, NodeAt(state, arena, p).child) : p \in NodePtrs}

SiblingNamesDistinct ==
    \A set \in SiblingSets : \A a, b \in 1..Len(set) :
        a # b => NameOf(set[a]) # NameOf(set[b])

\* the sibling set a create call adds to: the children of node for
\* create_child, the children of node's parent for create_sibling
TargetSiblings(call) ==
    IF call[1] = "create_child"
    THEN Siblings(state, arena, NodeAt(state, arena, call[2]).child)
    ELSE IF NodeAt(state, arena, call[2]).parent = NULL
    THEN Siblings(state, arena, state.root)
    ELSE Siblings(state, arena,
            NodeAt(state, arena, NodeAt(state, arena, call[2]).parent).child)

\* C11: a dtb_create_child / dtb_create_sibling call on a tree whose sibling
\* names are pairwise distinct is refused as a duplicate exactly when a node
\* of the sibling set it adds to has the same name, byte for byte and in
\* length (so a prefix or an extension of a sibling's name is accepted), and
\* it leaves the sibling names pairwise distinct.
C11_DuplicateExactly ==
    [][ ( /\ Growable
          /\ op'[1] \in {"create_sibling", "create_child"}
          /\ op'[2] # NULL /\ op'[3] # NULL
          /\ SiblingNamesDistinct )
        => /\ pc' = "ready"
           /\ (result' = NULL /\ log' = Report(log, "Node name already in use."))
                <=> (\E k \in 1..Len(TargetSiblings(op')) :
                        NameOf(TargetSiblings(op')[k]) = CStr(op'[3]))
           /\ SiblingNamesDistinct' ]_vars

\* C12: the payload of every property parse_prop has recorded lies inside
\* the structure block: the cell index of first_cell plus the payload's
\* cells is at most cell_count.
C12_PayloadInsideBlock ==
    \A p \in PropPtrs :
        (PropAt(state, arena, p).first_cell - state.cells) \div FDT_CELL_SIZE
            + DataCells(PropAt(state, arena, p)) <= state.cell_count

\* the pointers reached from those in seen by at most n child and sibling
\* links; links are read from the records of the arena only
RECURSIVE ReachFrom(_, _, _, _)
ReachFrom(st, ar, seen, n) ==
    IF n = 0 THEN seen
    ELSE ReachFrom(st, ar,
                   seen \cup UNION { {NodeAt(st, ar, s).child, NodeAt(st, ar, s).sibling} \ {NULL} :
                                       s \in {p \in seen : NodeIdx(st, p) \in 0..(st.node_alloc_head - 1)} },
                   n - 1)

\* the nodes of the tree: those reachable from the root list
TreeNodes == ReachFrom(state, arena, {state.root} \ {NULL}, state.node_alloc_head)

MissingTag == "Node is missing terminating tag."

\* C13: once parse_node has reported a node without its END_NODE, dtb_init
\* does not fail for it, and dtb_find, dtb_find_compatible and
\* dtb_find_phandle return NULL or a node of the tree, never a node of the
\* subtree that was given up.
C13_PartialSubtreeDiscarded ==
    (\E k \in 1..Len(log) : log[k] = MissingTag) =>
        /\ pc # "failed"
        /\ (pc = "ready" /\ op[1] \in {"find", "find_compatible", "find_phandle"}
                => result \in TreeNodes \cup {NULL})


\* the names of the top-level nodes of ManyRoots, in blob order
TopLevelNames == << <<>>, StrA, StrAB >>

\* the names along the root list
RootNames == [k \in 1..Len(Siblings(state, arena, state.root)) |->
                 NameOf(Siblings(state, arena, state.root)[k])]

\* C14: after dtb_init on a structure block of m well-formed top-level
\* nodes, with or without a padding cell between one node's END_NODE and
\* the next BEGIN_NODE, the root list holds exactly those m nodes, the last
\* node of the blob first.
C14_EveryTopLevelNode ==
    \A m \in 1..Len(TopLevelNodes), gap \in {<<>>, Word(FDT_NOP)} :
        (pc = "ready" /\ blob = ImageOf(FDT_MAGIC, ManyRoots(m, gap)))
            => RootNames = [k \in 1..m |-> TopLevelNames[m + 1 - k]]

\* C15: after a second successful dtb_init in the same context, every node
\* reachable from the root list through sibling and child links is a record
\* handed out from the current arena; no pointer into the arena of the
\* earlier call is reachable.
C15_NoStaleNode ==
    (pc = "ready" /\ op = <<"reinit">>) => TreeNodes \subseteq NodePtrs

\* whether the call of dtb_finalise_to_buffer recorded in op went on to the
\* emission pass
EmissionRan ==
    /\ op[1] = "finalise"
    /\ op[2] # NULL /\ op[2] % 4 = 0
    /\ ~(TotalBytes(FinaliseSizes(state, arena)) < op[3])

\* where the emission pass ends on the tree of this state
EmissionEnd == FinaliseWrites(state, arena, 0).data

\* C16: on every tree the emission pass ends with the structure cursor equal
\* to the struct_cells total and the strings cursor equal to the
\* strings_bytes total of the sizing pass and no bounds check trips; a call
\* that runs the emission pass returns total, never the failure sentinel.
C16_PassesAgree ==
    pc = "ready" =>
        /\ EmissionEnd.print_success
        /\ StructPtr(EmissionEnd) = FinaliseSizes(state, arena).struct_buf_size
        /\ StringPtr(EmissionEnd) = FinaliseSizes(state, arena).string_buf_size
        /\ EmissionRan =>
            /\ result.ret = TotalBytes(FinaliseSizes(state, arena))
            /\ result.ret # FinaliseFailure

\* an emission into a buffer of exactly total bytes, of a tree of two nodes
\* or more with a property, has returned total
C16_Witness ==
    /\ pc = "ready" /\ EmissionRan
    /\ op[3] = result.ret /\ result.wrote = result.ret
    /\ state.node_alloc_head >= 2 /\ state.prop_alloc_head >= 1
    /\ Len(Siblings(state, arena, NodeAt(state, arena, state.root).child)) >= 1

====
